---- MODULE Spec2Model ----
(***************************************************************************)
(* Model of the core of pydisc: the gateway supervisor (Client.connect     *)
(* driving DiscordWebSocketPoller), the per-bucket RateLimiter and the     *)
(* retry loop of RESTHandler.request.                                      *)
(*                                                                         *)
(* The specifications share the module, one per component:                 *)
(*   SpecGW   - Client.connect, DiscordWebSocketPoller and its             *)
(*              KeepAliveThread; FairSpecGW adds the event loop's          *)
(*              scheduling of connect                                      *)
(*   SpecRL   - RateLimiter used directly (acquire / update / global);     *)
(*              FairSpecRL adds the scheduling of the event loop,          *)
(*              SpecCalls callers that call acquire again                  *)
(*   SpecHTTP - RESTHandler.request on top of RateLimiter                  *)
(*   SpecZlib - the poller's decompressor over successive sockets          *)
(*   SpecSend - DiscordWebSocketPoller.send behind its GatewayRatelimiter  *)
(* Each leaves the variables of the other components at their initial      *)
(* values.                                                                 *)
(*                                                                         *)
(* Time is kept relative: every deadline is stored as "time left" and the  *)
(* Tick actions count all of them down together, so `now >= deadline` is    *)
(* `left = 0`.                                                             *)
(***************************************************************************)
EXTENDS Integers, Sequences, FiniteSets, TLC

(***************************************************************************)
(* Bounds of the gateway model                                             *)
(***************************************************************************)
MaxAttempts == 3      \* connect attempts explored per run of Client.connect
MaxSeq == 1           \* dispatch sequence numbers 0..MaxSeq
HeartbeatTimeout == 1 \* max_heartbeat_timeout, in heartbeat intervals
MaxSession == 1       \* session ids 1..MaxSession

(***************************************************************************)
(* Python None for the integer-valued fields                               *)
(***************************************************************************)
NoSession == 0        \* session_id is None
NoSeq == -1           \* sequence is None
NoCode == 0           \* close_code is None (falsy, like None, in `a or b`)
Inf == -1             \* KeepAliveThread.latency is float("inf")

(***************************************************************************)
(* Gateway op codes (websockets/enums.py)                                  *)
(***************************************************************************)
OP_dispatch == 0
OP_heartbeat == 1
OP_identify == 2
OP_resume == 6
OP_reconnect == 7
OP_invalid_session == 9
OP_hello == 10
OP_heartbeat_ack == 11
OP_unknown == 12      \* an op code received_message has no branch for (guild_sync)

VARIABLES
    poller,      \* the DiscordWebSocketPoller owned by the client (Client._ws)
    client,      \* Client.connect: its locals, its position and its outcome
    hs,          \* history: the identify/resume frame sent on the current attempt
    ended        \* history: how the most recent connection attempt ended

gwvars == <<poller, client, hs, ended>>

(***************************************************************************)
(* Bounds and state of the RateLimiter model (ratelimits.py)               *)
(***************************************************************************)
NumBuckets == 2       \* RateLimiter instances
NumProcs == 2         \* concurrent callers of acquire / request
MaxLimit == 2         \* permits per window, 1..MaxLimit
MaxPeriod == 1        \* window length of a new limiter, 1..MaxPeriod
MaxResetAfter == 2    \* X-RateLimit-Reset-After header, 0..MaxResetAfter
MaxRetryAfter == 2    \* retry_after of a global trip / of a 429, 1..MaxRetryAfter
MaxCeiling == 1       \* max_ratelimit_timeout, None or 0..MaxCeiling
MaxUpdates == 1       \* header updates explored per run
MaxTrips == 1         \* set_global_ratelimit calls explored per run
MaxCalls == 3         \* direct acquire calls explored per run

Buckets == 1..NumBuckets
Procs == 1..NumProcs
NoTime == -1          \* None for _global_reset / max_ratelimit_timeout / an absent header
NoCount == -1         \* granted: update has overwritten _remaining in this window

VARIABLES
    rl,          \* Buckets -> the RateLimiter's fields; deadlines as time left
    procs,       \* Procs -> the caller's position, bucket, sleep timer, result, queue ticket
    next_ticket, \* history: number of futures appended to a queue so far
    relmax,      \* history: Buckets -> highest ticket taken off the bucket's queue
    trip_left,   \* history: time left of the most recent set_global_ratelimit
    early,       \* history: a permit was granted while trip_left > 0
    granted,     \* history: Buckets -> permits granted since the window was refreshed
    nupd,        \* header updates so far
    ntrip,       \* set_global_ratelimit calls so far
    ncalls       \* direct acquire calls so far

rlvars == <<rl, procs, next_ticket, relmax, trip_left, early, granted, nupd, ntrip, ncalls>>

(***************************************************************************)
(* RESTHandler (http.py): state                                            *)
(***************************************************************************)
NumRoutes == 2        \* route keys 1..NumRoutes (one major-parameter value)
NumHashes == 1        \* bucket hashes the server reveals, 1..NumHashes
DefaultLimit == 5     \* http.py: _get_bucket: RateLimiter(5, 1, ...)
DefaultPeriod == 1
MaxAttemptsPerRequest == 5   \* http.py: for attempt in range(5)
MaxSharedFaults == 1  \* faults (429, 5xx, OSError) dealt to a request that is not the only one of the run
MaxResponses == 5     \* responses (and OSErrors) the server delivers per run

Routes == 1..NumRoutes
NoHash == 0
\* keys of RESTHandler._buckets: "route_key:major" or "hash:major"
Keys == { <<"route", r>> : r \in Routes } \cup { <<"hash", h>> : h \in 1..NumHashes }
NoBucket == 0

VARIABLES
    global_rl_over,  \* RESTHandler._global_rl_over: the asyncio.Event is set
    max_rl_timeout,  \* RESTHandler._max_rl_timeout (NoTime: None)
    bucket_hashes,   \* RESTHandler._bucket_hashes: Routes -> hash or NoHash
    buckets,         \* RESTHandler._buckets: Keys -> limiter or NoBucket
    nbuckets,        \* RateLimiter instances constructed so far: rl[1..nbuckets]
    req,             \* Procs -> the request call: locals, position, outcome
    nresp,           \* responses delivered so far
    glob_left,       \* history: time left of the most recent global 429
    sent_glob        \* history: an HTTP request was sent while glob_left > 0

httpvars == <<global_rl_over, max_rl_timeout, bucket_hashes, buckets, nbuckets, req,
              nresp, glob_left, sent_glob>>

(***************************************************************************)
(* Bounds and state of the poller's decompressor (websockets/              *)
(* decompressor.py) and of its GatewayRatelimiter (websockets/poller.py)   *)
(***************************************************************************)
MaxChunk == 4         \* bytes per binary message handed to decompress
MaxBuffer == 5        \* bytes the buffer may hold before the run is cut
MaxFrames == 2        \* complete frames a context inflates per run
MaxSockets == 3       \* sockets opened per run
Other == 120          \* a byte that is neither 00 nor FF
Bytes == {0, 255, Other}
ZLIB_SUFFIX == <<0, 0, 255, 255>>   \* b"\x00\x00\xff\xff"

GwCount == 2          \* GatewayRatelimiter(count): frames per window
GwPer == 2            \* GatewayRatelimiter(per): length of the window
NumSenders == 2       \* concurrent callers of DiscordWebSocketPoller.send
MaxSends == 6         \* calls of send explored per run
Senders == 1..NumSenders
NoSender == 0

VARIABLES
    decompressor,    \* DiscordWebSocketPoller.decompressor: buffer and zlib context
    socket,          \* history: sockets opened so far (start() calls)
    accumulated,     \* history: bytes read from the current socket since its last complete frame
    inflated         \* what the last decompress call returned (NoMsg: None)

zvars == <<decompressor, socket, accumulated, inflated>>

VARIABLES
    rate_limiter,    \* DiscordWebSocketPoller.rate_limiter; window as time gone by since
    senders,         \* Senders -> position of the send call and its sleep timer
    sent_frames,     \* history: frames handed to ws.send_str in each of the last `per` time units
    nsend            \* calls of send so far

sendvars == <<rate_limiter, senders, sent_frames, nsend>>

wsvars == <<zvars, sendvars>>

vars == <<gwvars, rlvars, httpvars, wsvars>>

(***************************************************************************)
(* Frames and socket events delivered by ws.receive                        *)
(***************************************************************************)
Frame(op, d, s, t, sid) == [op |-> op, d |-> d, s |-> s, t |-> t, sid |-> sid]

\* control frames: no "s", no "t"
ControlFrames ==
    { Frame(op, d, NoSeq, "None", NoSession) :
        op \in {OP_reconnect, OP_heartbeat_ack, OP_heartbeat, OP_hello, OP_unknown},
        d \in {FALSE} }
    \cup { Frame(OP_invalid_session, d, NoSeq, "None", NoSession) : d \in BOOLEAN }

\* dispatch frames: READY carries the session id, every dispatch carries "s"
DispatchFrames ==
    { Frame(OP_dispatch, FALSE, s, "READY", sid) : s \in 0..MaxSeq, sid \in 1..MaxSession }
    \cup { Frame(OP_dispatch, FALSE, s, t, NoSession) : s \in 0..MaxSeq, t \in {"RESUMED", "MESSAGE_CREATE"} }

\* close codes the server may close the socket with (NoCode: closed without a code)
FatalCloseCodes == {1000, 4004, 4010, 4011, 4012, 4013, 4014}
ServerCloseCodes == FatalCloseCodes \cup {NoCode, 1001, 4000}

NoFrame == [op |-> -1, session_id |-> NoSession, seq |-> NoSeq]

NoException == [type |-> "None", code |-> 0, resume |-> FALSE]
Exc(type, code) == [type |-> type, code |-> code, resume |-> FALSE]

\* errors.py: GatewayReconnectNeeded.__init__(self, *, resume=True); every
\* raise in poller.py is the bare `raise GatewayReconnectNeeded`.
GatewayReconnectNeeded_resume_false == FALSE
GatewayReconnectNeeded_resume == TRUE

GatewayReconnectNeeded == [type |-> "GatewayReconnectNeeded", code |-> 0,
                           resume |-> GatewayReconnectNeeded_resume]

\* errors.py: GatewayConnectionClosed.__init__: self.code = code or ws.close_code or -1
GatewayConnectionClosed(p, code) ==
    Exc("GatewayConnectionClosed",
        IF code # NoCode THEN code
        ELSE IF p.ws_close_code # NoCode THEN p.ws_close_code ELSE -1)

(***************************************************************************)
(* DiscordWebSocketPoller                                                  *)
(***************************************************************************)
\* a close that leaves the heartbeat monitor running
close_socket_only(p, code) ==
    [p EXCEPT !.close_code = code,
              !.ws = "closed",
              !.ws_close_code = IF p.ws = "open" THEN code ELSE @]

\* poller.py: KeepAliveThread.tick: last_recv = time.perf_counter().
\* last_recv counts the heartbeat intervals gone by since then.
tick(p) == IF p.keep_alive THEN [p EXCEPT !.last_recv = 0] ELSE p

\* history: an inbound frame has just been read from the socket
Heard(p) == IF p.keep_alive THEN [p EXCEPT !.last_frame = 0] ELSE p

\* poller.py: KeepAliveThread.run, after stop_ev.wait(interval):
\* last_recv + heartbeat_timeout < time.perf_counter()
stopped_responding(p) == p.last_recv + 1 > HeartbeatTimeout

\* poller.py: close(self, code=4000).  The socket echoes the requested code.
close(p, code) ==
    [p EXCEPT !.keep_alive = FALSE,
              !.last_recv = 0,
              !.last_frame = 0,
              !.close_code = code,
              !.ws = "closed",
              !.ws_close_code = IF p.ws = "open" THEN code ELSE @]

\* poller.py: can_handle_close_code
can_handle_close_code(p) ==
    LET code == IF p.close_code # NoCode THEN p.close_code ELSE p.ws_close_code
        is_improper == p.close_code = NoCode /\ p.ws_close_code = 1000
    IN  is_improper \/ code \notin FatalCloseCodes

\* events/router.py: parse_event: `event = event.lower()` stands before the
\* try; a missing parser is logged.  The exception the call raises.
parse_event(event) ==
    IF event = "None" THEN Exc("AttributeError", 0) ELSE NoException

\* poller.py: received_message, for a complete frame.  dispatched: the
\* frame's data was handed to event_router.parse_event.
received_message(p, msg) ==
    LET p1 == IF msg.s # NoSeq THEN [p EXCEPT !.sequence = msg.s] ELSE p
    IN  IF msg.op # OP_dispatch /\ msg.op = OP_reconnect
            THEN [p |-> close(p1, 4000), exc |-> GatewayReconnectNeeded, dispatched |-> FALSE]
        ELSE IF msg.op # OP_dispatch /\ msg.op = OP_heartbeat_ack
            THEN [p |-> tick(p1), exc |-> NoException, dispatched |-> FALSE]
        ELSE IF msg.op # OP_dispatch /\ msg.op = OP_heartbeat
            THEN [p |-> p1, exc |-> NoException, dispatched |-> FALSE]
        ELSE IF msg.op # OP_dispatch /\ msg.op = OP_hello
            THEN [p |-> [p1 EXCEPT !.keep_alive = TRUE, !.last_recv = 0, !.latency = Inf],
                  exc |-> NoException, dispatched |-> FALSE]
        ELSE IF msg.op # OP_dispatch /\ msg.op = OP_invalid_session
            THEN IF msg.d = TRUE
                 THEN [p |-> close(p1, 4000), exc |-> GatewayReconnectNeeded, dispatched |-> FALSE]
                 ELSE [p |-> close([p1 EXCEPT !.sequence = NoSeq,
                                              !.session_id = NoSession,
                                              !.gateway_url = "default"], 1000),
                       exc |-> GatewayReconnectNeeded, dispatched |-> FALSE]
        ELSE LET p2 == IF msg.t = "READY"
                       THEN [p1 EXCEPT !.sequence = msg.s,
                                       !.session_id = msg.sid,
                                       !.gateway_url = "resume"]
                       ELSE p1
             IN  [p |-> p2, exc |-> parse_event(msg.t), dispatched |-> TRUE]

\* poller.py: poll_event.  inp is what ws.receive produced: a frame, its
\* timeout, or a CLOSE/CLOSED/ERROR message (inp.code: the server's close code).
poll_event(p, inp) ==
    IF inp.kind = "frame"
    THEN LET r == received_message(p, inp.frame) IN [r EXCEPT !.p = Heard(r.p)]
    ELSE LET p1 == [p EXCEPT !.keep_alive = FALSE, !.last_recv = 0, !.last_frame = 0] IN
         IF inp.kind = "timeout"
         THEN [p |-> p1, exc |-> GatewayReconnectNeeded, dispatched |-> FALSE]
         ELSE LET p2 == IF p.ws = "open"
                        THEN [p1 EXCEPT !.ws = "closed", !.ws_close_code = inp.code]
                        ELSE p1
                  code == IF p2.close_code # NoCode THEN p2.close_code ELSE p2.ws_close_code
              IN  IF can_handle_close_code(p2)
                  THEN [p |-> p2, exc |-> GatewayReconnectNeeded, dispatched |-> FALSE]
                  ELSE [p |-> p2, exc |-> GatewayConnectionClosed(p2, code),
                        dispatched |-> FALSE]

\* client.py calls self._ws.update(initial=False) (lines 182 and 208); the
\* class defines no `update`.  It is taken to assign the attribute its
\* keyword names.
ws_update(p, initial) == [p EXCEPT !.initial_identify = initial]

\* poller.py: the latency property: inf without a monitor, else the
\* monitor's latency
latency(p) == IF p.keep_alive THEN p.latency ELSE Inf

\* poller.py: identify / resume: the frame sent
identify(p) == [op |-> OP_identify, session_id |-> NoSession, seq |-> NoSeq]
resume(p) == [op |-> OP_resume, session_id |-> p.session_id, seq |-> p.sequence]

\* what ws.receive can produce for the poller in state p
PollInputs(p, frames) ==
    IF p.ws = "open"
    THEN { [kind |-> "frame", frame |-> f, code |-> NoCode] : f \in frames }
         \cup { [kind |-> "timeout", frame |-> Frame(-1, FALSE, NoSeq, "None", NoSession), code |-> NoCode] }
         \cup { [kind |-> "closed", frame |-> Frame(-1, FALSE, NoSeq, "None", NoSession), code |-> c] :
                  c \in ServerCloseCodes }
    ELSE { [kind |-> "closed", frame |-> Frame(-1, FALSE, NoSeq, "None", NoSession), code |-> NoCode] }

(***************************************************************************)
(* Client                                                                  *)
(***************************************************************************)
\* a supervisor that never learns it was closed
is_closed_never(c) == FALSE

\* client.py: is_closed: self._closing_task is not None
is_closed(c) == c.closing

\* client.py: Client.close (and the _close task it awaits)
Client_close(c, p) ==
    IF c.closing THEN [c |-> c, p |-> p]
    ELSE [c |-> [c EXCEPT !.closing = TRUE],
          p |-> IF p.ws = "open" THEN close(p, 1000) ELSE p]

Finish(c, result) == [c EXCEPT !.pc = "done", !.result = result]

\* an except clause that tells the dispatcher nothing
invoke_nothing(c) == c

\* client.py: self.events.invoke("disconnect") (lines 187 and 197): one more
\* notification handed to the dispatcher; notice_pc: where connect was then
invoke_disconnect(c) == [c EXCEPT !.notified = @ + 1, !.notice_pc = c.pc]

\* client.py: the except clauses of Client.connect, up to the next await of
\* the loop (asyncio.sleep) or to the end of the call.
handle(c0, p, exc) ==
    LET c == invoke_disconnect(c0) IN
    IF exc.type = "AttributeError"
    THEN [c |-> Finish(c0, "AttributeError"), p |-> p]   \* no except clause names it
    ELSE IF exc.type = "GatewayReconnectNeeded"
    THEN [c |-> [c EXCEPT !.resume = exc.resume, !.pc = "loop"], p |-> p]
    ELSE IF ~c.reconnect
    THEN IF p.ws = "none"
         THEN [c |-> Finish(c, "AttributeError"), p |-> p]   \* self._ws.open before any socket
         ELSE LET r == Client_close(c, p) IN
              IF exc.type = "GatewayConnectionClosed" /\ exc.code = 1000
              THEN [c |-> Finish(r.c, "returned"), p |-> r.p]
              ELSE [c |-> Finish(r.c, exc.type), p |-> r.p]
    ELSE IF is_closed(c)
    THEN [c |-> Finish(c, "returned"), p |-> p]
    ELSE IF exc.type = "OSError" /\ exc.code \in {54, 10054}
    THEN [c |-> [c EXCEPT !.resume = TRUE, !.pc = "loop"],
          p |-> ws_update(p, FALSE)]
    ELSE IF exc.type = "GatewayConnectionClosed" /\ exc.code = 4014
    THEN [c |-> Finish(c, "PriviligedIntentsRequired"), p |-> p]
    ELSE IF exc.type = "GatewayConnectionClosed" /\ exc.code # 1000
    THEN LET r == Client_close(c, p) IN [c |-> Finish(r.c, exc.type), p |-> r.p]
    ELSE [c |-> [c EXCEPT !.pc = "backoff"], p |-> p]

EndOf(inp, p, attempt) ==
    [kind |-> IF inp.kind = "frame"
              THEN (IF inp.frame.op = OP_invalid_session THEN "invalid_session"
                    ELSE IF inp.frame.op = OP_reconnect THEN "reconnect"
                    ELSE IF inp.frame.op = OP_unknown THEN "unknown_op" ELSE "frame")
              ELSE IF inp.kind = "closed" /\ p.ws = "open" THEN "closed"
              ELSE IF inp.kind = "closed" THEN "closed_local"
              ELSE inp.kind,
     d |-> inp.frame.d,
     code |-> inp.code,
     session_id |-> p.session_id,
     seq |-> p.sequence,
     attempt |-> attempt,
     dispatched |-> FALSE]

NotEnded == [kind |-> "none", d |-> FALSE, code |-> NoCode, session_id |-> NoSession,
             seq |-> NoSeq, attempt |-> 0, dispatched |-> FALSE]

\* client.py: `while not self.is_closed()` is false: connect returns
ConnectLoopExit ==
    /\ client.pc = "loop"
    /\ is_closed(client)
    /\ client' = Finish(client, "returned")
    /\ UNCHANGED <<poller, hs, ended>>
    /\ UNCHANGED <<rlvars, httpvars, wsvars>>

\* client.py / poller.py: start(): ws_connect succeeds
ConnectOpen ==
    /\ client.pc = "loop"
    /\ ~is_closed(client)
    /\ client.attempts < MaxAttempts
    /\ poller' = [poller EXCEPT !.ws = "open", !.ws_close_code = NoCode]
    /\ client' = [client EXCEPT !.pc = "hello", !.attempts = @ + 1]
    /\ hs' = NoFrame
    /\ UNCHANGED ended
    /\ UNCHANGED <<rlvars, httpvars, wsvars>>

\* start(): ws_connect raises (OSError with an errno, or aiohttp.ClientError)
ConnectFail ==
    /\ client.pc = "loop"
    /\ ~is_closed(client)
    /\ client.attempts < MaxAttempts
    /\ \E exc \in {Exc("OSError", 54), Exc("OSError", 111), Exc("ClientError", 0)} :
         LET r == handle([client EXCEPT !.attempts = @ + 1, !.pc = "hello"], poller, exc) IN
           /\ client' = r.c
           /\ poller' = r.p
           /\ ended' = [NotEnded EXCEPT !.kind = exc.type, !.code = exc.code,
                                        !.session_id = poller.session_id,
                                        !.seq = poller.sequence,
                                        !.attempt = client.attempts + 1]
    /\ hs' = NoFrame
    /\ UNCHANGED <<rlvars, httpvars, wsvars>>

\* start(): the first poll_event, then identify() or resume(); back in
\* connect, `self._ws.update(initial=False)`.  No dispatch is delivered before
\* the identify/resume frame has been sent (gateway protocol).
StartHandshake ==
    /\ client.pc = "hello"
    /\ \E inp \in PollInputs(poller, ControlFrames) :
         LET r == poll_event(poller, inp) IN
           IF r.exc = NoException
           THEN /\ hs' = IF client.resume THEN resume(r.p) ELSE identify(r.p)
                /\ poller' = ws_update(r.p, FALSE)
                /\ client' = [client EXCEPT !.pc = "polling"]
                /\ UNCHANGED ended
           ELSE LET h == handle(client, r.p, r.exc) IN
                /\ client' = h.c
                /\ poller' = h.p
                /\ ended' = [EndOf(inp, poller, client.attempts)
                               EXCEPT !.dispatched = r.dispatched]
                /\ UNCHANGED hs
    /\ UNCHANGED <<rlvars, httpvars, wsvars>>

\* connect(): asyncio.wait_for(start(), timeout=60.0) expires
StartTimeout ==
    /\ client.pc = "hello"
    /\ LET h == handle(client, poller, Exc("TimeoutError", 0)) IN
         /\ client' = h.c
         /\ poller' = h.p
    /\ ended' = [NotEnded EXCEPT !.kind = "start_timeout", !.session_id = poller.session_id,
                                 !.seq = poller.sequence, !.attempt = client.attempts]
    /\ UNCHANGED hs
    /\ UNCHANGED <<rlvars, httpvars, wsvars>>

\* connect(): `while True: await self._ws.poll_event()`
Poll ==
    /\ client.pc = "polling"
    /\ \E inp \in PollInputs(poller, ControlFrames \cup DispatchFrames) :
         LET r == poll_event(poller, inp) IN
           IF r.exc = NoException
           THEN /\ poller' = r.p
                /\ UNCHANGED <<client, ended>>
           ELSE LET h == handle(client, r.p, r.exc) IN
                /\ client' = h.c
                /\ poller' = h.p
                /\ ended' = [EndOf(inp, poller, client.attempts)
                               EXCEPT !.dispatched = r.dispatched]
    /\ UNCHANGED hs
    /\ UNCHANGED <<rlvars, httpvars, wsvars>>

\* connect(): `await asyncio.sleep(retry); resume = True; continue`
BackoffDone ==
    /\ client.pc = "backoff"
    /\ client' = [client EXCEPT !.resume = TRUE, !.pc = "loop"]
    /\ UNCHANGED <<poller, hs, ended>>
    /\ UNCHANGED <<rlvars, httpvars, wsvars>>

\* connect(): asyncio.wait_for(start(), timeout=60.0) expires after start()
\* has read Hello, while identify() or resume() still awaits its send
\* (rate_limiter.block, ws.send_str): start() is cancelled where it stands
StartTimeoutArmed ==
    /\ client.pc = "hello"
    /\ poller.ws = "open"
    /\ LET r == poll_event(poller, [kind |-> "frame", code |-> NoCode,
                                    frame |-> Frame(OP_hello, FALSE, NoSeq, "None", NoSession)])
           h == handle(client, r.p, Exc("TimeoutError", 0)) IN
         /\ client' = h.c
         /\ poller' = h.p
    /\ ended' = [NotEnded EXCEPT !.kind = "start_timeout", !.session_id = poller.session_id,
                                 !.seq = poller.sequence, !.attempt = client.attempts]
    /\ UNCHANGED hs
    /\ UNCHANGED <<rlvars, httpvars, wsvars>>

\* poller.py: KeepAliveThread.run, one interval later: a heartbeat is sent
KeepAliveBeat ==
    /\ poller.keep_alive
    /\ ~stopped_responding(poller)
    /\ poller' = [poller EXCEPT !.last_recv = @ + 1, !.last_frame = @ + 1]
    /\ UNCHANGED <<client, hs, ended>>
    /\ UNCHANGED <<rlvars, httpvars, wsvars>>

\* poller.py: KeepAliveThread.run: the heartbeat's send raises (the transport
\* is closing): `except Exception: self.stop()`; the loop ends
KeepAliveSendFails ==
    /\ poller.keep_alive
    /\ ~stopped_responding(poller)
    /\ poller.ws = "open"
    /\ poller' = [poller EXCEPT !.keep_alive = FALSE, !.last_recv = 0, !.last_frame = 0]
    /\ UNCHANGED <<client, hs, ended>>
    /\ UNCHANGED <<rlvars, httpvars, wsvars>>

\* poller.py: KeepAliveThread.run finds last_recv too old: self.ws.close(4000)
KeepAliveTimeout ==
    /\ poller.keep_alive
    /\ stopped_responding(poller)
    /\ poller' = close(poller, 4000)
    /\ UNCHANGED <<client, hs, ended>>
    /\ UNCHANGED <<rlvars, httpvars, wsvars>>

\* the application calls Client.close() while connect is running.  Before
\* the first socket exists the _close task fails on self._ws.open, in the
\* application's call; _closing_task has been assigned all the same.
ClientClose ==
    /\ ~client.closing
    /\ client.pc # "done"
    /\ LET r == Client_close(client, poller) IN
         /\ client' = r.c
         /\ poller' = r.p
    /\ UNCHANGED <<hs, ended>>
    /\ UNCHANGED <<rlvars, httpvars, wsvars>>

NextGW ==
    \/ ConnectLoopExit
    \/ ConnectOpen
    \/ ConnectFail
    \/ StartHandshake
    \/ StartTimeout
    \/ StartTimeoutArmed
    \/ Poll
    \/ BackoffDone
    \/ KeepAliveBeat
    \/ KeepAliveSendFails
    \/ KeepAliveTimeout
    \/ ClientClose


(***************************************************************************)
(* RateLimiter (ratelimits.py)                                             *)
(***************************************************************************)

Max(a, b) == IF a >= b THEN a ELSE b
Min(a, b) == IF a <= b THEN a ELSE b
Dec(t) == IF t > 0 THEN t - 1 ELSE t
Range(q) == { q[i] : i \in 1..Len(q) }

\* ratelimits.py: RateLimiter.__init__
RateLimiter(limit, period, max_ratelimit_timeout) ==
    [limit |-> limit, period |-> period, max_ratelimit_timeout |-> max_ratelimit_timeout,
     queue |-> <<>>, remaining |-> limit, window_reset |-> period,
     throttle_task |-> "None", task_timer |-> 0, global_reset |-> NoTime]

\* a _refresh_window that never starts a new window
refresh_window_never(b) == b

\* ratelimits.py: _refresh_window.  window_reset holds window_reset - now,
\* floored at 0, so `now >= self._window_reset` is window_reset = 0.
refresh_window(b) ==
    IF b.window_reset = 0
    THEN [b EXCEPT !.remaining = b.limit, !.window_reset = b.period]
    ELSE b

\* ratelimits.py: _handle_wait: TRUE when it raises RateLimited (after
\* failing every queued future), FALSE when it sleeps wait_time.
handle_wait_raises(b, wait_time) ==
    b.max_ratelimit_timeout # NoTime /\ wait_time > b.max_ratelimit_timeout

\* the outcome of one uninterrupted stretch of code on a limiter:
\*   b: the limiter after it; out: where the running coroutine is left;
\*   wait: the sleep it starts; released / failed: futures resolved, in order
Outcome(b, out, wait, released, failed) ==
    [b |-> b, out |-> out, wait |-> wait, released |-> released, failed |-> failed]

\* acquire that takes a permit without looking at _remaining
acquire_permit_unguarded(b, p) ==
    Outcome([b EXCEPT !.remaining = @ - 1], "ok", 0, <<>>, <<>>)

\* ratelimits.py: acquire, from `if self._remaining > 0` on
acquire_permit(b, p) ==
    IF b.remaining > 0
    THEN Outcome([b EXCEPT !.remaining = @ - 1], "ok", 0, <<>>, <<>>)
    ELSE Outcome([b EXCEPT !.queue = Append(@, p),
                           !.throttle_task = IF @ = "None" THEN "ready" ELSE @],
                 "queued", 0, <<>>, <<>>)

\* ratelimits.py: acquire, up to its first suspension
acquire(b, p) ==
    LET b1 == refresh_window(b) IN
    IF b1.global_reset # NoTime /\ b1.global_reset > 0
    THEN IF handle_wait_raises(b1, b1.global_reset)
         THEN Outcome([b1 EXCEPT !.queue = <<>>], "RateLimited", 0, <<>>, b1.queue)
         ELSE Outcome(b1, "gsleep", b1.global_reset, <<>>, <<>>)
    ELSE acquire_permit(b1, p)

\* the inner `while self._remaining > 0 and self._queue` of _process_queue:
\* the futures it resolves are the first k of the queue
popright_release(b) ==
    LET k == Min(b.remaining, Len(b.queue)) IN
    [b |-> [b EXCEPT !.remaining = @ - k, !.queue = SubSeq(@, 1, Len(@) - k)],
     released |-> [i \in 1..k |-> b.queue[Len(b.queue) + 1 - i]]]

\* a drain that resolves every queued future, whatever _remaining is
release_all(b) ==
    [b |-> [b EXCEPT !.remaining = 0, !.queue = <<>>], released |-> b.queue]

release(b) ==
    LET k == Min(b.remaining, Len(b.queue)) IN
    [b |-> [b EXCEPT !.remaining = @ - k, !.queue = SubSeq(@, k + 1, Len(@))],
     released |-> SubSeq(b.queue, 1, k)]

\* ratelimits.py: _process_queue, from the top of `while self._queue` to its
\* next sleep, its exception or its end
RECURSIVE process_queue(_, _)
process_queue(b, released) ==
    IF b.queue = <<>>
    THEN Outcome([b EXCEPT !.throttle_task = "None"], "end", 0, released, <<>>)
    ELSE LET b1 == refresh_window(b)
             wait_time == Max(0, b1.window_reset)
         IN  IF b1.remaining = 0
             THEN IF handle_wait_raises(b1, wait_time)
                  THEN Outcome([b1 EXCEPT !.queue = <<>>, !.throttle_task = "raised"],
                               "RateLimited", 0, released, b1.queue)
                  ELSE Outcome([b1 EXCEPT !.throttle_task = "sleeping", !.task_timer = wait_time],
                               "sleep", wait_time, released, <<>>)
             ELSE LET r == release(b1) IN process_queue(r.b, released \o r.released)

\* ratelimits.py: set_global_ratelimit
set_global_ratelimit(b, retry_after) == [b EXCEPT !.global_reset = retry_after]

\* ratelimits.py: update.  NoTime stands for an absent header.
update(b, h_limit, h_remaining, h_reset_after) ==
    [b EXCEPT !.limit = IF h_limit # NoTime THEN h_limit ELSE @,
              !.remaining = IF h_remaining # NoTime THEN h_remaining ELSE @,
              !.window_reset = IF h_reset_after # NoTime THEN h_reset_after ELSE @]

\* futures resolved by an outcome: the awaiting callers become runnable
Resolve(ps, o) ==
    [q \in Procs |->
        IF q \in Range(o.released) THEN [ps[q] EXCEPT !.pc = "woken", !.result = "ok"]
        ELSE IF q \in Range(o.failed) THEN [ps[q] EXCEPT !.pc = "woken", !.result = "RateLimited"]
        ELSE ps[q]]

\* where the caller p is left by an acquire outcome
Caller(ps, p, o, ticket) ==
    [ps EXCEPT ![p] =
        IF o.out = "ok" THEN [@ EXCEPT !.pc = "done", !.result = "ok"]
        ELSE IF o.out = "RateLimited" THEN [@ EXCEPT !.pc = "done", !.result = "RateLimited"]
        ELSE IF o.out = "gsleep" THEN [@ EXCEPT !.pc = "gsleep", !.timer = o.wait]
        ELSE [@ EXCEPT !.pc = "queued", !.ticket = ticket]]

Tickets(ps, q) == { ps[q[i]].ticket : i \in 1..Len(q) }
MaxOf(S) == IF S = {} THEN 0 ELSE CHOOSE x \in S : \A y \in S : y <= x

\* permits handed out by an outcome: to the running caller and to waiters
Grants(o) == (IF o.out = "ok" THEN 1 ELSE 0) + Len(o.released)

\* history kept by every step that runs code of limiter k, found in state b,
\* with outcome o.  Only _refresh_window changes _window_reset in such a step.
History(k, b, o) ==
    /\ next_ticket' = IF o.out = "queued" THEN next_ticket + 1 ELSE next_ticket
    /\ relmax' = [relmax EXCEPT ![k] = Max(@, MaxOf(Tickets(procs, o.released \o o.failed)))]
    /\ early' = (early \/ (trip_left > 0 /\ (o.out = "ok" \/ o.released # <<>>)))
    /\ granted' = [granted EXCEPT ![k] =
                     LET since == IF o.b.window_reset # b.window_reset THEN 0 ELSE @
                     IN  IF since = NoCount THEN NoCount ELSE since + Grants(o)]

IdleProc == [pc |-> "idle", bucket |-> 1, timer |-> 0, result |-> "none", ticket |-> 0]

IdleRequest ==
    [phase |-> "idle", route |-> 1, ratelimit |-> 1, bucket_hash |-> NoHash,
     key |-> <<"route", 1>>, attempt |-> 0, timer |-> 0, is_global |-> FALSE,
     status |-> 0, rl_hash |-> NoHash, result |-> "none", clean |-> "none", over |-> FALSE,
     acquires |-> 0]   \* history: calls of ratelimit.acquire made by this request

\* request has returned or raised: its outcome, the status of its last
\* response and its history stay, its other locals go
Finished(rq, result) ==
    [IdleRequest EXCEPT !.phase = "finished", !.result = result, !.status = rq.status,
                        !.clean = rq.clean, !.over = rq.over]

\* http.py: request: what follows `async with ratelimit` (acquire) in the
\* same stretch of code: the first HTTP attempt is sent, or RateLimited
\* propagates out of request.
after_acquire(rq, ps) ==
    [p \in Procs |->
        IF rq[p].phase = "acquire" /\ ps[p].pc = "done"
        THEN IF ps[p].result = "ok"
             THEN [rq[p] EXCEPT !.phase = "http"]
             ELSE Finished(rq[p], "RateLimited")
        ELSE rq[p]]

\* some request call starts an HTTP attempt in the step from rq0 to rq1
Sends(rq0, rq1) == \E p \in Procs : rq0[p].phase # "http" /\ rq1[p].phase = "http"

\* a step of limiter code, seen from the request calls awaiting it
Continue ==
    /\ req' = after_acquire(req, procs')
    /\ sent_glob' = (sent_glob \/ (glob_left > 0 /\ Sends(req, req')))
    /\ UNCHANGED <<global_rl_over, max_rl_timeout, bucket_hashes, buckets, nbuckets, nresp, glob_left>>
    /\ UNCHANGED <<gwvars, wsvars>>

InitLimiters(limits, periods, ceilings) ==
    /\ \E l \in limits, per \in periods, m \in ceilings :
         rl = [k \in Buckets |-> RateLimiter(l, per, m)]
    /\ procs = [p \in Procs |-> IdleProc]
    /\ next_ticket = 0
    /\ relmax = [k \in Buckets |-> 0]
    /\ trip_left = 0
    /\ early = FALSE
    /\ granted = [k \in Buckets |-> 0]
    /\ nupd = 0
    /\ ntrip = 0
    /\ ncalls = 0

\* `await limiter.acquire()` by caller p on limiter k, up to its first suspension
Acquire(p, k) ==
    /\ ncalls < MaxCalls
    /\ ncalls' = ncalls + 1
    /\ LET o == acquire(rl[k], p) IN
         /\ rl' = [rl EXCEPT ![k] = o.b]
         /\ procs' = Caller(Resolve([procs EXCEPT ![p] = [IdleProc EXCEPT !.bucket = k]], o),
                            p, o, next_ticket + 1)
         /\ History(k, rl[k], o)
    /\ UNCHANGED <<trip_left, nupd, ntrip>>
    /\ Continue

\* a caller starts its first `await limiter.acquire()`
AcquireCall(p, k) ==
    /\ procs[p].pc = "idle"
    /\ Acquire(p, k)

\* a caller whose previous acquire has returned or raised calls acquire again
AcquireAgain(p, k) ==
    /\ procs[p].pc = "done"
    /\ Acquire(p, k)

\* acquire: the sleep of _handle_wait is over
AcquireAfterGlobal(p) ==
    /\ procs[p].pc = "gsleep"
    /\ procs[p].timer = 0
    /\ LET k == procs[p].bucket
           o == acquire_permit(rl[k], p) IN
         /\ rl' = [rl EXCEPT ![k] = o.b]
         /\ procs' = Caller(procs, p, o, next_ticket + 1)
         /\ History(k, rl[k], o)
    /\ UNCHANGED <<trip_left, nupd, ntrip, ncalls>>
    /\ Continue

\* acquire: `await fut` completes, with the result or the exception set on it
AcquireReturn(p) ==
    /\ procs[p].pc = "woken"
    /\ procs' = [procs EXCEPT ![p].pc = "done"]
    /\ UNCHANGED <<rl, next_ticket, relmax, trip_left, early, granted, nupd, ntrip, ncalls>>
    /\ Continue

\* the task of _process_queue runs: first after create_task, then after each sleep
ProcessQueue(k) ==
    /\ \/ rl[k].throttle_task = "ready"
       \/ rl[k].throttle_task = "sleeping" /\ rl[k].task_timer = 0
    /\ LET o == process_queue(rl[k], <<>>) IN
         /\ rl' = [rl EXCEPT ![k] = o.b]
         /\ procs' = Resolve(procs, o)
         /\ History(k, rl[k], o)
    /\ UNCHANGED <<trip_left, nupd, ntrip, ncalls>>
    /\ Continue

\* RateLimiter.update with the headers of a response
Update(k) ==
    /\ nupd < MaxUpdates
    /\ \E h_limit \in {NoTime} \cup 1..MaxLimit,
          h_remaining \in {NoTime} \cup 0..MaxLimit,
          h_reset_after \in {NoTime} \cup 0..MaxResetAfter :
         rl' = [rl EXCEPT ![k] = update(@, h_limit, h_remaining, h_reset_after)]
    /\ granted' = [granted EXCEPT ![k] = NoCount]
    /\ nupd' = nupd + 1
    /\ UNCHANGED <<procs, next_ticket, relmax, trip_left, early, ntrip, ncalls>>
    /\ UNCHANGED <<gwvars, httpvars, wsvars>>

\* RateLimiter.set_global_ratelimit(retry_after)
SetGlobal(k) ==
    /\ ntrip < MaxTrips
    /\ \E retry_after \in 1..MaxRetryAfter :
         /\ rl' = [rl EXCEPT ![k] = set_global_ratelimit(@, retry_after)]
         /\ trip_left' = Max(trip_left, retry_after)
    /\ ntrip' = ntrip + 1
    /\ UNCHANGED <<procs, next_ticket, relmax, early, granted, nupd, ncalls>>
    /\ UNCHANGED <<gwvars, httpvars, wsvars>>

\* one unit of time passes for the limiters and their callers
TickLimiters ==
    /\ rl' = [k \in Buckets |->
                IF k <= nbuckets
                THEN [rl[k] EXCEPT !.window_reset = Dec(@), !.task_timer = Dec(@),
                                   !.global_reset = Dec(@)]
                ELSE rl[k]]
    /\ procs' = [p \in Procs |-> [procs[p] EXCEPT !.timer = Dec(@)]]
    /\ trip_left' = Dec(trip_left)

\* one unit of time passes for every sleeper and every deadline
Tick ==
    /\ TickLimiters
    /\ req' = [p \in Procs |-> [req[p] EXCEPT !.timer = Dec(@)]]
    /\ glob_left' = Dec(glob_left)
    /\ UNCHANGED <<next_ticket, relmax, early, granted, nupd, ntrip, ncalls>>
    /\ UNCHANGED <<global_rl_over, max_rl_timeout, bucket_hashes, buckets, nbuckets, nresp, sent_glob>>
    /\ UNCHANGED <<gwvars, wsvars>>

NextRL ==
    \/ \E p \in Procs, k \in Buckets : AcquireCall(p, k)
    \/ \E p \in Procs : AcquireAfterGlobal(p)
    \/ \E p \in Procs : AcquireReturn(p)
    \/ \E k \in Buckets : ProcessQueue(k)
    \/ \E k \in Buckets : Update(k)
    \/ \E k \in Buckets : SetGlobal(k)
    \/ Tick

\* RateLimiter with callers that come back for another permit
NextCalls ==
    \/ NextRL
    \/ \E p \in Procs, k \in Buckets : AcquireAgain(p, k)

(***************************************************************************)
(* RESTHandler.request (http.py)                                           *)
(***************************************************************************)
\* responses of the server to one HTTP attempt.  h_remaining = NoTime: the
\* response carries no X-RateLimit-Remaining header.
Response(status, hash, h_limit, h_remaining, h_reset_after, via, json, retry_after, is_global) ==
    [status |-> status, hash |-> hash, h_limit |-> h_limit, h_remaining |-> h_remaining,
     h_reset_after |-> h_reset_after, via |-> via, json |-> json,
     retry_after |-> retry_after, is_global |-> is_global]

Statuses == {200, 400, 403, 404, 500, 501, 503}

\* statuses explored with rate limit headers on the response
HeaderStatuses == {200, 404, 500}

Hashes == {NoHash} \cup 1..NumHashes

\* responses without rate limit headers; responses with them; 429s a proxy
\* answered (Via header, JSON body); a 429 without Via and one with a text body
Responses ==
    { Response(st, h, NoTime, NoTime, NoTime, TRUE, TRUE, 0, FALSE) :
        st \in Statuses, h \in Hashes }
    \cup { Response(st, h, MaxLimit, r, t, TRUE, TRUE, 0, FALSE) :
        st \in HeaderStatuses, h \in Hashes, r \in 0..1, t \in 1..MaxResetAfter }
    \cup { Response(429, h, NoTime, NoTime, NoTime, TRUE, TRUE, ra, g) :
        h \in Hashes, ra \in 1..MaxRetryAfter, g \in BOOLEAN }
    \cup { Response(429, NoHash, NoTime, NoTime, NoTime, FALSE, TRUE, 1, FALSE),
           Response(429, NoHash, NoTime, NoTime, NoTime, TRUE, FALSE, 1, FALSE) }

\* errno of an OSError raised by session.request
Errnos == {54, 111}

\* a discovery that re-registers the bucket on every response carrying a hash
discover_again(hashes, bks, rq, rl_hash) ==
    IF rl_hash # NoHash
    THEN [hashes |-> [hashes EXCEPT ![rq.route] = rl_hash],
          buckets |-> [k \in Keys |->
                         IF k = <<"hash", rl_hash>> THEN rq.ratelimit
                         ELSE IF k = rq.key THEN NoBucket
                         ELSE bks[k]]]
    ELSE [hashes |-> hashes, buckets |-> bks]

\* http.py: request, lines 397-412: the X-RateLimit-Bucket header.  Returns
\* the registry after it.
discover(hashes, bks, rq, rl_hash) ==
    IF rl_hash # NoHash /\ rq.bucket_hash # rl_hash
    THEN IF rq.bucket_hash # NoHash
         THEN [hashes |-> [hashes EXCEPT ![rq.route] = rl_hash],
               buckets |-> [k \in Keys |->
                              IF k = rq.key /\ k # <<"hash", rl_hash>> THEN NoBucket
                              ELSE IF k = <<"hash", rl_hash>> THEN rq.ratelimit
                              ELSE bks[k]]]
         ELSE IF hashes[rq.route] = NoHash
         THEN [hashes |-> [hashes EXCEPT ![rq.route] = rl_hash],
               buckets |-> [bks EXCEPT ![<<"hash", rl_hash>>] = rq.ratelimit]]
         ELSE [hashes |-> hashes, buckets |-> bks]
    ELSE [hashes |-> hashes, buckets |-> bks]

\* http.py: `if self.max_ratelimit_timeout and retry_after > self.max_ratelimit_timeout`
exceeds_ceiling_not_none(m, retry_after) == m # NoTime /\ retry_after > m

exceeds_ceiling(m, retry_after) == (m # NoTime /\ m # 0) /\ retry_after > m

\* a retry delay that does not grow with the attempt
backoff_flat(attempt) == 1

\* http.py: `await asyncio.sleep(1 + attempt * 2)` (lines 476 and 489)
backoff(attempt) == 1 + attempt * 2

\* a request loop that retries whatever is not a 2xx
classify_retry_all(r, rq, m) ==
    IF r.status >= 200 /\ r.status < 300
    THEN [do |-> "return", exc |-> "none", delay |-> 0, is_global |-> FALSE]
    ELSE [do |-> "sleep", exc |-> "none", delay |-> 1 + rq.attempt * 2, is_global |-> FALSE]

\* http.py: request, lines 423-486: what the attempt leads to
\*   "return" | "raise" (with the exception) | "sleep" (with the delay)
classify(r, rq, m) ==
    IF r.status >= 200 /\ r.status < 300
    THEN [do |-> "return", exc |-> "none", delay |-> 0, is_global |-> FALSE]
    ELSE IF r.status = 429
    THEN IF ~r.via \/ ~r.json
         THEN [do |-> "raise", exc |-> "HTTPException", delay |-> 0, is_global |-> FALSE]
         ELSE IF exceeds_ceiling(m, r.retry_after)
         THEN [do |-> "raise", exc |-> "RateLimited", delay |-> 0, is_global |-> FALSE]
         ELSE [do |-> "sleep", exc |-> "none", delay |-> r.retry_after, is_global |-> r.is_global]
    ELSE IF r.status \in {500, 502, 503, 524}
    THEN [do |-> "sleep", exc |-> "none", delay |-> backoff(rq.attempt), is_global |-> FALSE]
    ELSE IF r.status = 403 THEN [do |-> "raise", exc |-> "Forbidden", delay |-> 0, is_global |-> FALSE]
    ELSE IF r.status = 404 THEN [do |-> "raise", exc |-> "NotFound", delay |-> 0, is_global |-> FALSE]
    ELSE IF r.status >= 500
    THEN [do |-> "raise", exc |-> "DiscordServerError", delay |-> 0, is_global |-> FALSE]
    ELSE [do |-> "raise", exc |-> "HTTPException", delay |-> 0, is_global |-> FALSE]

\* asyncio.Event.set(): every coroutine waiting in wait() is woken
event_set(rq) ==
    [p \in Procs |-> IF rq[p].phase = "gate" THEN [rq[p] EXCEPT !.phase = "gate_open"] ELSE rq[p]]

\* request: `async with ratelimit:` for the request p whose locals are in rq1
EnterLimiter(p, rq1, rl1) ==
    LET k == rq1[p].ratelimit
        o == acquire(rl1[k], p) IN
      /\ rl' = [rl1 EXCEPT ![k] = o.b]
      /\ procs' = Caller(Resolve([procs EXCEPT ![p].bucket = k], o), p, o, next_ticket + 1)
      /\ History(k, rl1[k], o)
      /\ req' = after_acquire([rq1 EXCEPT ![p].phase = "acquire", ![p].acquires = @ + 1],
                              procs')
      /\ sent_glob' = (sent_glob \/ (glob_left > 0 /\ Sends(req, req')))

\* faults (429, 5xx, OSError) request rq has been dealt so far
Faults(rq) == rq.attempt + (IF rq.phase = "sleep" THEN 1 ELSE 0)

\* p is the only request made so far
Alone(p) == \A q \in Procs \ {p} : req[q].phase = "idle"

\* request is called: the bucket is looked up (_get_bucket creates it), then
\* the global gate is checked and, when it is open, the limiter is entered
Request(p, route) ==
    /\ req[p].phase = "idle"
    /\ procs[p].pc = "idle"
    /\ Alone(p) \/ \A q \in Procs \ {p} : Faults(req[q]) <= MaxSharedFaults
    /\ LET bucket_hash == bucket_hashes[route]
           key == IF bucket_hash = NoHash THEN <<"route", route>> ELSE <<"hash", bucket_hash>>
           exists == buckets[key] # NoBucket
           id == IF exists THEN buckets[key] ELSE nbuckets + 1
           rl1 == IF exists THEN rl
                  ELSE [rl EXCEPT ![id] = RateLimiter(DefaultLimit, DefaultPeriod, max_rl_timeout)]
           rq1 == [req EXCEPT ![p].route = route, ![p].bucket_hash = bucket_hash,
                              ![p].key = key, ![p].ratelimit = id]
       IN  /\ exists \/ nbuckets < NumBuckets
           /\ buckets' = [buckets EXCEPT ![key] = id]
           /\ nbuckets' = IF exists THEN nbuckets ELSE nbuckets + 1
           /\ IF global_rl_over
              THEN EnterLimiter(p, rq1, rl1)
              ELSE /\ req' = [rq1 EXCEPT ![p].phase = "gate"]
                   /\ rl' = rl1
                   /\ UNCHANGED <<procs, next_ticket, relmax, early, granted, sent_glob>>
    /\ UNCHANGED <<global_rl_over, max_rl_timeout, bucket_hashes, nresp, glob_left>>
    /\ UNCHANGED <<trip_left, nupd, ntrip, ncalls>>
    /\ UNCHANGED <<gwvars, wsvars>>

\* request: `await self._global_rl_over.wait()` returns
GatePass(p) ==
    /\ req[p].phase = "gate_open"
    /\ EnterLimiter(p, req, rl)
    /\ UNCHANGED <<global_rl_over, max_rl_timeout, bucket_hashes, buckets, nbuckets, nresp, glob_left>>
    /\ UNCHANGED <<trip_left, nupd, ntrip, ncalls>>
    /\ UNCHANGED <<gwvars, wsvars>>

\* the server may fail the attempt of request p once more: p has been failed
\* fewer than MaxSharedFaults times, or it is the only request of the run
MayFail(p) == Faults(req[p]) < MaxSharedFaults \/ Alone(p)

\* request: the response of the attempt in flight arrives (lines 392-486)
Respond(p) ==
    /\ req[p].phase = "http"
    /\ nresp < MaxResponses
    /\ nresp' = nresp + 1
    /\ \E r \in Responses :
         LET rq == req[p]
             updates == r.h_remaining # NoTime /\ r.status # 429
             d == discover(bucket_hashes, buckets, rq, r.hash)
             c == classify(r, rq, max_rl_timeout)
             good429 == r.status = 429 /\ r.via /\ r.json
             rq1 == [rq EXCEPT !.status = r.status,
                               !.rl_hash = r.hash,
                               !.clean = IF @ # "no" /\ good429
                                            /\ ~exceeds_ceiling_not_none(max_rl_timeout, r.retry_after)
                                         THEN "yes" ELSE "no",
                               !.over = good429
                                           /\ exceeds_ceiling_not_none(max_rl_timeout, r.retry_after)]
         IN  /\ r.h_remaining # NoTime => nupd < MaxUpdates
             /\ c.do = "sleep" => MayFail(p)
             /\ nupd' = IF r.h_remaining # NoTime THEN nupd + 1 ELSE nupd
             /\ bucket_hashes' = d.hashes
             /\ buckets' = d.buckets
             /\ rl' = IF updates
                      THEN [rl EXCEPT ![rq.ratelimit] = update(@, r.h_limit, r.h_remaining, r.h_reset_after)]
                      ELSE rl
             /\ granted' = IF updates THEN [granted EXCEPT ![rq.ratelimit] = NoCount] ELSE granted
             /\ req' = [req EXCEPT ![p] =
                          IF c.do = "return" THEN Finished(rq1, "ok")
                          ELSE IF c.do = "raise" THEN Finished(rq1, c.exc)
                          ELSE [rq1 EXCEPT !.phase = "sleep", !.timer = c.delay, !.is_global = c.is_global]]
             /\ global_rl_over' = IF c.do = "sleep" /\ c.is_global THEN FALSE ELSE global_rl_over
             /\ glob_left' = IF c.do = "sleep" /\ c.is_global THEN Max(glob_left, c.delay) ELSE glob_left
    /\ UNCHANGED <<max_rl_timeout, nbuckets, sent_glob>>
    /\ UNCHANGED <<procs, next_ticket, relmax, trip_left, early, ntrip, ncalls>>
    /\ UNCHANGED <<gwvars, wsvars>>

\* request: session.request raises OSError (lines 487-491)
RespondOSError(p) ==
    /\ req[p].phase = "http"
    /\ nresp < MaxResponses
    /\ nresp' = nresp + 1
    /\ \E errno \in Errnos :
         LET rq == [req[p] EXCEPT !.clean = "no", !.over = FALSE]
             retried == rq.attempt < 4 /\ errno \in {54, 10054}
         IN  /\ retried => MayFail(p)
             /\ req' = [req EXCEPT ![p] =
                          IF retried
                          THEN [rq EXCEPT !.phase = "sleep", !.timer = backoff(rq.attempt),
                                          !.is_global = FALSE]
                          ELSE Finished(rq, "OSError")]
    /\ UNCHANGED <<global_rl_over, max_rl_timeout, bucket_hashes, buckets, nbuckets, glob_left, sent_glob>>
    /\ UNCHANGED rlvars
    /\ UNCHANGED <<gwvars, wsvars>>

\* request: the sleep of a 429 or of a transient fault is over: the gate is
\* set again after a global 429, then `continue`: the next attempt is sent,
\* or the loop is exhausted (lines 493-497)
Retry(p) ==
    /\ req[p].phase = "sleep"
    /\ req[p].timer = 0
    /\ LET rq0 == IF req[p].is_global THEN event_set(req) ELSE req
           rq == rq0[p]
       IN  /\ global_rl_over' = IF req[p].is_global THEN TRUE ELSE global_rl_over
           /\ req' = [rq0 EXCEPT ![p] =
                        IF rq.attempt + 1 < MaxAttemptsPerRequest
                        THEN [rq EXCEPT !.attempt = @ + 1, !.phase = "http", !.is_global = FALSE]
                        ELSE Finished([rq EXCEPT !.attempt = @ + 1],
                                      IF rq.status = 0 THEN "RuntimeError"
                                      ELSE IF rq.status >= 500 THEN "DiscordServerError"
                                      ELSE "HTTPException")]
           /\ sent_glob' = (sent_glob \/ (glob_left > 0 /\ Sends(req, req')))
    /\ UNCHANGED <<max_rl_timeout, bucket_hashes, buckets, nbuckets, nresp, glob_left>>
    /\ UNCHANGED rlvars
    /\ UNCHANGED <<gwvars, wsvars>>

(***************************************************************************)
(* The specifications                                                      *)
(***************************************************************************)
InitPoller ==
    [session_id |-> NoSession, sequence |-> NoSeq, close_code |-> NoCode,
     ws |-> "none", ws_close_code |-> NoCode, keep_alive |-> FALSE, last_recv |-> 0,
     last_frame |-> 0, latency |-> Inf,
     gateway_url |-> "default", initial_identify |-> TRUE]

InitClient(reconnect) ==
    [pc |-> "loop", resume |-> FALSE, reconnect |-> reconnect, closing |-> FALSE,
     result |-> "running", attempts |-> 0, notified |-> 0, notice_pc |-> "none"]

InitSupervisor(options) ==
    /\ poller = InitPoller
    /\ \E r \in options : client = InitClient(r)
    /\ hs = NoFrame
    /\ ended = NotEnded

\* http.py: RESTHandler.__init__.  asyncio.Event() is created unset and only
\* line 470 sets it; `gates` also admits a handler whose event has been set,
\* so that the code behind line 374 is explored.  `constructed` limiters
\* exist from the start; _get_bucket constructs the others.
InitHandler(gates, ceilings, constructed) ==
    /\ global_rl_over \in gates
    /\ max_rl_timeout \in ceilings
    /\ bucket_hashes = [r \in Routes |-> NoHash]
    /\ buckets = [k \in Keys |-> NoBucket]
    /\ nbuckets = constructed
    /\ req = [p \in Procs |-> IdleRequest]
    /\ nresp = 0
    /\ glob_left = 0
    /\ sent_glob = FALSE

\* seq ends with the four bytes of the sync marker
EndsWithSuffix(seq) ==
    Len(seq) >= 4 /\ SubSeq(seq, Len(seq) - 3, Len(seq)) = ZLIB_SUFFIX

NoMsg == <<-1>>       \* decompress returned None

\* decompressor.py: _ZlibDecompressionContext.__init__.  context: the
\* number of frames the zlib stream object has inflated so far.
ActiveDecompressor == [buffer |-> <<>>, context |-> 0]

\* zlib: context.decompress(buffer): the deflate blocks before the marker,
\* read as the continuation of what the context has inflated before; the
\* message is tagged with the frame's position in the stream
zlib_decompress(context, buffer) == <<context>> \o SubSeq(buffer, 1, Len(buffer) - 4)

\* a decompress that looks for the marker at the end of the buffer
decompress_buffer(d, data) ==
    LET buffer == d.buffer \o data IN
    IF ~EndsWithSuffix(buffer)
    THEN [d |-> [d EXCEPT !.buffer = buffer], msg |-> NoMsg]
    ELSE [d |-> [buffer |-> <<>>, context |-> d.context + 1],
          msg |-> zlib_decompress(d.context, buffer)]

\* decompressor.py: _ZlibDecompressionContext.decompress
decompress(d, data) ==
    LET buffer == d.buffer \o data IN
    IF Len(data) < 4 \/ SubSeq(data, Len(data) - 3, Len(data)) # ZLIB_SUFFIX
    THEN [d |-> [d EXCEPT !.buffer = buffer], msg |-> NoMsg]
    ELSE [d |-> [buffer |-> <<>>, context |-> d.context + 1],
          msg |-> zlib_decompress(d.context, buffer)]

\* the binary messages a socket may deliver
Chunks == UNION { [1..n -> Bytes] : n \in 1..MaxChunk }

InitDecompressor ==
    /\ decompressor = ActiveDecompressor
    /\ socket = 0
    /\ accumulated = <<>>
    /\ inflated = NoMsg

\* poller.py: start(): what it does to self.decompressor: nothing; the
\* attribute is assigned in __init__ only
start(d) == d

\* poller.py: start(): ws_connect returns a new socket
Start ==
    /\ socket < MaxSockets
    /\ socket' = socket + 1
    /\ decompressor' = start(decompressor)
    /\ accumulated' = <<>>
    /\ UNCHANGED inflated
    /\ UNCHANGED <<gwvars, rlvars, httpvars, sendvars>>

\* poller.py: received_message, `type(msg) is bytes`: one binary message
\* goes through self.decompressor.decompress
Decompress(data) ==
    /\ socket > 0
    /\ Len(decompressor.buffer) + Len(data) <= MaxBuffer
    /\ decompressor.context < MaxFrames
    /\ LET r == decompress(decompressor, data) IN
         /\ decompressor' = r.d
         /\ inflated' = r.msg
    /\ accumulated' = IF EndsWithSuffix(accumulated \o data) THEN <<>>
                      ELSE accumulated \o data
    /\ UNCHANGED socket
    /\ UNCHANGED <<gwvars, rlvars, httpvars, sendvars>>

NextZlib ==
    \/ Start
    \/ \E data \in Chunks : Decompress(data)

\* poller.py: GatewayRatelimiter.__init__.  window holds the whole time
\* units gone by since self.window, capped at per; self.window = 0.0 lies
\* further back.  lock: the holder of self.lock; waiters: the callers
\* queued on it.
GatewayRatelimiter(count, per) ==
    [max |-> count, remaining |-> count, window |-> per, per |-> per,
     lock |-> NoSender, waiters |-> <<>>]

\* poller.py: GatewayRatelimiter.get_delay.  Every call reads time.time()
\* anew and no two readings are equal: a reading taken per whole units
\* after self.window was assigned is greater than self.window + per, and
\* the delay left of a running window is positive.
get_delay(r) ==
    LET r1 == IF r.window >= r.per THEN [r EXCEPT !.remaining = r.max] ELSE r
        r2 == IF r1.remaining = r1.max THEN [r1 EXCEPT !.window = 0] ELSE r1
    IN  IF r2.remaining = 0
        THEN [r |-> r2, delay |-> r2.per - r2.window]
        ELSE [r |-> [r2 EXCEPT !.remaining = @ - 1], delay |-> 0]

\* poller.py: GatewayRatelimiter.block, by sender p once it holds the lock,
\* up to its sleep or its return
block(r, p) ==
    LET g == get_delay(r) IN
    IF g.delay # 0
    THEN [r |-> [g.r EXCEPT !.lock = p], out |-> "sleep", wait |-> g.delay]
    ELSE [r |-> g.r, out |-> "return", wait |-> 0]

IdleSender == [pc |-> "idle", timer |-> 0]

RECURSIVE Sum(_)
Sum(q) == IF q = <<>> THEN 0 ELSE Head(q) + Sum(Tail(q))

\* ws.send_str is called: one more frame in the current time unit
send_str(fr) == [fr EXCEPT ![1] = @ + 1]

InitRateLimiter ==
    /\ rate_limiter = GatewayRatelimiter(GwCount, GwPer)
    /\ senders = [p \in Senders |-> IdleSender]
    /\ sent_frames = [i \in 1..GwPer |-> 0]
    /\ nsend = 0

\* poller.py: send, from the moment block holds the lock: block runs to its
\* sleep, or returns and ws.send_str is called
Enter(p, r) ==
    LET o == block(r, p) IN
      /\ rate_limiter' = o.r
      /\ senders' = [senders EXCEPT ![p] =
                       IF o.out = "sleep" THEN [pc |-> "sleep", timer |-> o.wait]
                       ELSE IdleSender]
      /\ sent_frames' = IF o.out = "sleep" THEN sent_frames ELSE send_str(sent_frames)

\* poller.py: send is called by p: `async with self.lock` is entered at
\* once when the lock is free and nobody waits for it
Send(p) ==
    /\ senders[p].pc = "idle"
    /\ nsend < MaxSends
    /\ nsend' = nsend + 1
    /\ IF rate_limiter.lock = NoSender /\ rate_limiter.waiters = <<>>
       THEN Enter(p, rate_limiter)
       ELSE /\ rate_limiter' = [rate_limiter EXCEPT !.waiters = Append(@, p)]
            /\ senders' = [senders EXCEPT ![p].pc = "lock"]
            /\ UNCHANGED sent_frames
    /\ UNCHANGED <<gwvars, rlvars, httpvars, zvars>>

\* the lock is handed to its first waiter
LockAcquired(p) ==
    /\ senders[p].pc = "lock"
    /\ rate_limiter.lock = NoSender
    /\ rate_limiter.waiters # <<>> /\ Head(rate_limiter.waiters) = p
    /\ Enter(p, [rate_limiter EXCEPT !.waiters = Tail(@)])
    /\ UNCHANGED nsend
    /\ UNCHANGED <<gwvars, rlvars, httpvars, zvars>>

\* block: asyncio.sleep(delta) is over: the lock is released, block returns
\* and ws.send_str is called
BlockWake(p) ==
    /\ senders[p].pc = "sleep"
    /\ senders[p].timer = 0
    /\ rate_limiter' = [rate_limiter EXCEPT !.lock = NoSender]
    /\ senders' = [senders EXCEPT ![p] = IdleSender]
    /\ sent_frames' = send_str(sent_frames)
    /\ UNCHANGED nsend
    /\ UNCHANGED <<gwvars, rlvars, httpvars, zvars>>

\* one unit of time passes for the gateway rate limiter and its senders
TickSend ==
    /\ rate_limiter' = [rate_limiter EXCEPT !.window = Min(@ + 1, rate_limiter.per)]
    /\ senders' = [p \in Senders |-> [senders[p] EXCEPT !.timer = Dec(@)]]
    /\ sent_frames' = <<0>> \o SubSeq(sent_frames, 1, Len(sent_frames) - 1)
    /\ UNCHANGED nsend
    /\ UNCHANGED <<gwvars, rlvars, httpvars, zvars>>

NextSend ==
    \/ \E p \in Senders : Send(p)
    \/ \E p \in Senders : LockAcquired(p)
    \/ \E p \in Senders : BlockWake(p)
    \/ TickSend

InitWS == InitDecompressor /\ InitRateLimiter

InitGW ==
    /\ InitWS
    /\ InitSupervisor(BOOLEAN)
    /\ InitLimiters({DefaultLimit}, {DefaultPeriod}, {NoTime})
    /\ InitHandler({FALSE}, {NoTime}, NumBuckets)

InitRL ==
    /\ InitWS
    /\ InitSupervisor({TRUE})
    /\ InitLimiters(1..MaxLimit, 1..MaxPeriod, {NoTime} \cup 0..MaxCeiling)
    /\ InitHandler({FALSE}, {NoTime}, NumBuckets)

InitHTTP ==
    /\ InitWS
    /\ InitSupervisor({TRUE})
    /\ InitHandler(BOOLEAN, {NoTime} \cup 0..MaxCeiling, 0)
    /\ InitLimiters({DefaultLimit}, {DefaultPeriod}, {max_rl_timeout})

NextHTTP ==
    \/ \E p \in Procs, route \in Routes : Request(p, route)
    \/ \E p \in Procs : GatePass(p)
    \/ \E p \in Procs : Respond(p)
    \/ \E p \in Procs : RespondOSError(p)
    \/ \E p \in Procs : Retry(p)
    \/ \E p \in Procs : AcquireReturn(p)
    \/ \E k \in Buckets : ProcessQueue(k)
    \/ Tick

SpecGW == InitGW /\ [][NextGW]_vars

\* the event loop runs connect whenever it can go on: a frame, a close or
\* a timeout ends every receive, and every sleep ends
FairGW ==
    /\ WF_vars(ConnectLoopExit)
    /\ WF_vars(StartHandshake)
    /\ WF_vars(Poll)
    /\ WF_vars(BackoffDone)

FairSpecGW == SpecGW /\ FairGW

SpecRL == InitRL /\ [][NextRL]_vars

SpecCalls == InitRL /\ [][NextCalls]_vars

SpecHTTP == InitHTTP /\ [][NextHTTP]_vars

InitZlib ==
    /\ InitWS
    /\ InitSupervisor({TRUE})
    /\ InitLimiters({DefaultLimit}, {DefaultPeriod}, {NoTime})
    /\ InitHandler({FALSE}, {NoTime}, NumBuckets)

SpecZlib == InitZlib /\ [][NextZlib]_vars

SpecSend == InitZlib /\ [][NextSend]_vars

\* the event loop runs every runnable coroutine and time passes; nothing
\* obliges the application to call acquire, update or set_global_ratelimit
FairRL ==
    /\ WF_vars(Tick)
    /\ \A p \in Procs : WF_vars(AcquireAfterGlobal(p)) /\ WF_vars(AcquireReturn(p))
    /\ \A k \in Buckets : WF_vars(ProcessQueue(k))

FairSpecRL == SpecRL /\ FairRL

(***************************************************************************)
(* Claims about the gateway supervisor                                     *)
(***************************************************************************)
\* the attempt that follows the one `ended` describes has sent its handshake frame
NextAttemptSent == client.attempts = ended.attempt + 1 /\ hs # NoFrame

\* C1: after an invalid_session frame (op 9) with d=false, session_id and
\* sequence are cleared and the next connect attempt sends identify (op 2),
\* not resume (op 6).
C1_IdentifyAfterInvalidSession ==
    (ended.kind = "invalid_session" /\ ended.d = FALSE) =>
        /\ client.attempts = ended.attempt =>
             poller.session_id = NoSession /\ poller.sequence = NoSeq
        /\ NextAttemptSent => hs.op = OP_identify

\* C2: whenever the server closes the socket of the current connection with
\* code 4014, connect raises PriviligedIntentsRequired and makes no further
\* attempt, whatever happened on earlier connections and whatever `reconnect` is.
C2_PrivilegedIntentsOn4014 ==
    (ended.kind = "closed" /\ ended.code = 4014) =>
        /\ client.pc = "done"
        /\ client.result = "PriviligedIntentsRequired"
        /\ client.attempts = ended.attempt

\* C8: after the server closes the socket with code 4000 while a session id is
\* known, the next connect attempt sends resume (op 6) carrying that session
\* id and the last recorded sequence, and no identify.
C8_ResumeAfter4000 ==
    (ended.kind = "closed" /\ ended.code = 4000 /\ ended.session_id # NoSession
        /\ NextAttemptSent) =>
        hs = [op |-> OP_resume, session_id |-> ended.session_id, seq |-> ended.seq]

C8_Witness ==
    /\ ended.kind = "closed" /\ ended.code = 4000 /\ ended.session_id # NoSession
    /\ NextAttemptSent
    /\ hs.op = OP_resume
    /\ hs.seq # NoSeq

\* C9: when the server closes the socket of the current connection with a
\* fatal code in {4004, 4010, 4011, 4012, 4013}, connect makes no further
\* attempt and raises the closure error (GatewayConnectionClosed).
C9_FatalCloseStops ==
    (ended.kind = "closed" /\ ended.code \in {4004, 4010, 4011, 4012, 4013}) =>
        /\ client.pc = "done"
        /\ client.result = "GatewayConnectionClosed"
        /\ client.attempts = ended.attempt

\* C16: between any two consecutive connect attempts one "disconnect"
\* notification is handed to the dispatcher, and it is handed over while
\* connect is still at the failed attempt, before it has decided to go round
\* the loop, to back off or to stop.
C16_DisconnectNotified ==
    /\ client.pc \in {"hello", "polling"} => client.notified = client.attempts - 1
    /\ (client.pc \in {"loop", "backoff"} /\ client.attempts > 0) =>
          /\ client.notified = client.attempts
          /\ client.notice_pc \in {"hello", "polling"}

\* the third attempt is under way and two notifications went out, the
\* second while the handshake of the second attempt was failing
C16_Witness ==
    /\ client.attempts = 3 /\ client.pc = "hello"
    /\ client.notified = 2 /\ client.notice_pc = "hello"

\* C17: when connect was called with reconnect=False, the supervisor makes
\* at most one connection attempt, however that attempt ends.
C17_SingleAttemptWithoutReconnect == ~client.reconnect => client.attempts <= 1

\* a step within one connected session: same connection, same session id
SameSession ==
    /\ poller.session_id # NoSession
    /\ poller'.session_id = poller.session_id
    /\ client'.attempts = client.attempts

\* C19: within one connected session the recorded sequence never decreases,
\* whatever envelopes arrive.
C19_SequenceMonotone ==
    [][(SameSession /\ poller.sequence # NoSeq) => poller'.sequence >= poller.sequence]_vars

\* C20: Client.close() unblocks the supervisor's backoff sleep: once close
\* has been called, connect is not left waiting out the rest of the delay.
C20_CloseUnblocksBackoff == client.closing => client.pc # "backoff"

C22_ResumeOnlyWithSession ==
    /\ (client.pc = "hello" /\ client.resume) => poller.session_id # NoSession
    /\ hs.op = OP_resume => hs.session_id # NoSession

\* this step ends the attempt under way with a fault, and connect, called
\* with reconnect=True, goes on
AttemptFaulted ==
    /\ client.reconnect
    /\ ended'.attempt # ended.attempt
    /\ client'.pc \in {"loop", "backoff"}

\* C23: after a receive timeout, a resumable close code or a transient I/O
\* fault the supervisor sleeps its backoff delay before the next attempt;
\* only Reconnect (op 7) and the OS-level resets are retried at once.
C23_BackoffBeforeRetry ==
    [][AttemptFaulted =>
         /\ (\/ ended'.kind \in {"timeout", "closed", "ClientError", "start_timeout"}
             \/ ended'.kind = "OSError" /\ ended'.code \notin {54, 10054})
              => client'.pc = "backoff"
         /\ client'.pc = "loop"
              => (\/ ended'.kind = "reconnect"
                  \/ ended'.kind = "OSError" /\ ended'.code \in {54, 10054})]_vars

\* this step reads a Reconnect (op 7) frame from the socket
ReconnectReceived ==
    /\ ended'.attempt # ended.attempt
    /\ ended'.kind = "reconnect"

\* C24: on Reconnect (op 7) the connection closes its socket and stops its
\* heartbeat monitor, the frame is not handed to the dispatcher, and the
\* supervisor goes to its next attempt without backoff and with resume=true.
C24_ReconnectFrame ==
    [][ReconnectReceived =>
         /\ poller'.ws = "closed"
         /\ ~poller'.keep_alive
         /\ ~ended'.dispatched
         /\ client'.pc = "loop"
         /\ client'.resume]_vars

\* a session was running when op 7 came, and the next attempt has sent its
\* resume frame for that session
C24_Witness ==
    /\ ended.kind = "reconnect" /\ ended.session_id # NoSession
    /\ client.attempts = ended.attempt + 1
    /\ hs = [op |-> OP_resume, session_id |-> ended.session_id, seq |-> ended.seq]

\* C28: the identify or resume frame of a connection is sent only once
\* Hello has been received on it and the heartbeat monitor is armed; when
\* the first inbound frame is not Hello, neither is sent.
C28_HelloBeforeIdentify ==
    [][(hs = NoFrame /\ hs' # NoFrame) => poller'.keep_alive]_vars

\* C29: a frame whose op code is not a recognised one is logged and
\* ignored: it is not handed to the dispatcher, no error leaves the receive
\* path and the connection goes on with the next frame, so no connection
\* attempt is ever ended by such a frame.
C29_UnknownOpIgnored == ended.kind # "unknown_op"

\* C30: every inbound frame refreshes lastRecv, so the heartbeat monitor
\* declares the connection dead only when no inbound frame of any kind
\* arrived within the heartbeat timeout.
C30_AnyFrameKeepsAlive ==
    [][(poller.keep_alive /\ ~poller'.keep_alive /\ KeepAliveTimeout)
          => poller.last_frame + 1 > HeartbeatTimeout]_vars

\* C31: a heartbeat ack received while a monitor is armed sets lastAckAt
\* and latency = now - lastSentAt, so the latency the connection reports is
\* finite once a heartbeat has been acknowledged.
C31_LatencyAfterAck ==
    poller.keep_alive =>
        latency(received_message(poller,
                                 Frame(OP_heartbeat_ack, FALSE, NoSeq, "None", NoSession)).p) # Inf

\* C32: when a heartbeat cannot be sent the monitor declares the connection
\* dead: it requests a close of the socket and stops itself.
C32_SendFailureDeclaresDead ==
    [][(poller.keep_alive /\ ~poller'.keep_alive /\ KeepAliveSendFails)
          => poller'.ws = "closed"]_vars

\* C33: at most one heartbeat monitor runs for the client's connection:
\* the monitor of a connection that has ended is stopped before the next
\* connect attempt starts, so an attempt that has not yet read its Hello
\* has no monitor running.
C33_MonitorStoppedBeforeRetry == client.pc = "hello" => ~poller.keep_alive

(***************************************************************************)
(* Claims about RateLimiter (ratelimits.py)                                *)
(***************************************************************************)
Suspended(p) == procs[p].pc \in {"queued", "gsleep", "woken"}

\* C3: every caller suspended in acquire eventually leaves it, with a permit
\* or with RateLimited; nobody stays suspended forever.
C3_AcquireTerminates == \A p \in Procs : Suspended(p) ~> (procs[p].pc = "done")

\* C5: while a global trip recorded by set_global_ratelimit has not elapsed,
\* no acquire on any bucket returns and no queued caller is released.
C5_GlobalBlocksAll == ~early

\* C10: no waiter is released before a waiter enqueued earlier on the same
\* bucket: whoever is still queued was enqueued after every waiter the
\* bucket has released so far.
C10_FIFO ==
    \A p \in Procs : procs[p].pc = "queued" => procs[p].ticket > relmax[procs[p].bucket]

\* a waiter has been released from a bucket on which a later one still waits
C10_Witness ==
    \E p, q \in Procs :
        /\ procs[q].pc = "queued"
        /\ procs[p].pc \in {"woken", "done"} /\ procs[p].result = "ok"
        /\ procs[p].bucket = procs[q].bucket
        /\ procs[p].ticket > 0 /\ procs[p].ticket < procs[q].ticket
        /\ relmax[procs[q].bucket] = procs[p].ticket

\* C11: in every reachable state of every RateLimiter, under any interleaving
\* of acquire, the drain routine and update, remaining >= 0.
C11_RemainingNonNegative == \A k \in Buckets : rl[k].remaining >= 0

\* a bucket is exhausted: its permits were taken down to 0, a caller has one
\* and another caller is queued behind it
C11_Witness ==
    \E k \in Buckets, p, q \in Procs :
        /\ rl[k].remaining = 0
        /\ procs[p].bucket = k /\ procs[p].pc = "done" /\ procs[p].result = "ok"
        /\ procs[q].bucket = k /\ procs[q].pc = "queued"

\* what C12 promises of an acquire call by p on bucket k: it returns with a
\* permit in the same step, remaining = limit - 1, windowResetAt = now + period
FreshWindowGrant(p, k) ==
    /\ procs'[p].pc = "done" /\ procs'[p].result = "ok"
    /\ rl'[k].remaining = rl[k].limit - 1
    /\ rl'[k].window_reset = rl[k].period

\* C12 as stated: on any bucket, an acquire called once now >= windowResetAt
\* returns without suspending and leaves remaining = limit - 1 and
\* windowResetAt = now + period.
C12_WindowResetAsStated ==
    [][\A p \in Procs, k \in Buckets :
          (AcquireCall(p, k) /\ rl[k].window_reset = 0) => FreshWindowGrant(p, k)]_vars

\* C12: on a bucket on which no global trip is pending, an acquire called
\* once now >= windowResetAt returns without suspending and leaves
\* remaining = limit - 1 and windowResetAt = now + period.
C12_WindowReset ==
    [][\A p \in Procs, k \in Buckets :
          (AcquireCall(p, k) /\ rl[k].window_reset = 0 /\ rl[k].global_reset <= 0)
              => FreshWindowGrant(p, k)]_vars

\* two callers hold a permit of a bucket of limit 1 that saw no update, no
\* trip and no queueing: the second acquire found the window expired
C12_Witness ==
    \E k \in Buckets, p, q \in Procs :
        /\ p # q /\ nupd = 0 /\ ntrip = 0
        /\ rl[k].limit = 1 /\ rl[k].remaining = 0 /\ rl[k].window_reset = rl[k].period
        /\ \A c \in {p, q} : /\ procs[c].bucket = k /\ procs[c].pc = "done"
                              /\ procs[c].result = "ok" /\ procs[c].ticket = 0

\* no header update has overwritten the window of bucket k, no global trip
\* is pending on it and no ceiling is configured
PlainWindow(k) ==
    /\ granted[k] # NoCount
    /\ rl[k].global_reset <= 0
    /\ rl[k].max_ratelimit_timeout = NoTime

\* waiters of bucket k that leave its queue in this step
Leaving(k) ==
    { q \in Procs : procs[q].pc = "queued" /\ procs[q].bucket = k /\ procs'[q].pc # "queued" }

\* an acquire call by p on bucket k, in a window not yet over: it returns at
\* once while fewer than `limit` permits were granted, and is suspended after
CallInWindow(p, k) ==
    ((AcquireCall(p, k) \/ AcquireAgain(p, k)) /\ PlainWindow(k) /\ rl[k].window_reset > 0) =>
        IF granted[k] < rl[k].limit
        THEN procs'[p].pc = "done" /\ procs'[p].result = "ok"
        ELSE procs'[p].pc = "queued"

\* waiters leave the queue of bucket k with a permit, not before the window
\* they were queued in is over; those the reset itself lets go leave
\* remaining = limit - (their number)
ReleaseAfterReset(k) ==
    (PlainWindow(k) /\ Leaving(k) # {}) =>
        /\ \A q \in Leaving(k) : procs'[q].pc = "woken" /\ procs'[q].result = "ok"
        /\ rl[k].window_reset = 0 \/ granted[k] < rl[k].limit
        /\ rl[k].window_reset = 0 =>
              rl'[k].remaining = rl[k].limit - Cardinality(Leaving(k))

\* C13: between two window resets with no header update in between, at most
\* `limit` acquire calls return; the first `limit` calls of a window return
\* immediately, the next one stays suspended until the window is reset, and
\* the reset lets it return leaving remaining = limit - 1.
C13_AtMostLimitPerWindow ==
    /\ [](\A k \in Buckets : granted[k] # NoCount => granted[k] <= rl[k].limit)
    /\ [][\A k \in Buckets : ReleaseAfterReset(k) /\ \A p \in Procs : CallInWindow(p, k)]_vars

\* limit = 2: two calls took the permits of a window, the third was queued
\* and the reset released it, leaving remaining = 1
C13_Witness ==
    \E k \in Buckets, p \in Procs :
        /\ nupd = 0 /\ ntrip = 0 /\ ncalls = 3
        /\ rl[k].max_ratelimit_timeout = NoTime
        /\ rl[k].limit = 2 /\ rl[k].remaining = 1 /\ granted[k] = 1
        /\ procs[p].bucket = k /\ procs[p].pc = "done" /\ procs[p].result = "ok"
        /\ procs[p].ticket = 1

TransientStatuses == {500, 502, 503, 524}

\* the response to request p's attempt arrives in this step with status st
Answered(p, st) ==
    /\ req[p].phase = "http" /\ req'[p].phase # "http" /\ req'[p].status = st
    /\ Respond(p)

\* request p leaves the sleep that follows a 429 or a transient fault
Wakes(p) == req[p].phase = "sleep" /\ req'[p].phase # "sleep"

\* C14: a transient server fault (500/502/503/524) is followed by a sleep of
\* 1 + 2*attempt seconds and then by the next attempt; a 2xx response ends the
\* call with its body; no call makes more than 5 HTTP attempts, and when the
\* fifth attempt is a transient fault too the call fails with DiscordServerError.
C14_TransientRetry ==
    /\ [](\A p \in Procs : req[p].attempt < 5)
    /\ [][\A p \in Procs :
            /\ \A st \in TransientStatuses : Answered(p, st) =>
                   /\ req'[p].phase = "sleep"
                   /\ req'[p].timer = 1 + 2 * req[p].attempt
                   /\ req'[p].attempt = req[p].attempt
            /\ Answered(p, 200) => req'[p].phase = "finished" /\ req'[p].result = "ok"
            /\ (Wakes(p) /\ req[p].status \in TransientStatuses) =>
                   /\ req[p].timer = 0
                   /\ IF req[p].attempt < 4
                      THEN req'[p].phase = "http" /\ req'[p].attempt = req[p].attempt + 1
                      ELSE req'[p].phase = "finished" /\ req'[p].result = "DiscordServerError"
       ]_vars

\* five responses, all to one request; the fifth was a transient fault and
\* its backoff of 1 + 2*4 seconds has elapsed, so the call failed
C14_Witness ==
    \E p \in Procs :
        /\ nresp = 5 /\ Alone(p)
        /\ req[p].phase = "finished" /\ req[p].status = 503
        /\ req[p].result = "DiscordServerError"

\* 4xx and 5xx statuses that are neither 429 nor a transient fault
TerminalStatuses == (400..599) \ ({429} \cup TransientStatuses)

\* those of them the server of the model answers with
TerminalAnswers == TerminalStatuses \cap Statuses

\* the error C15 names for a terminal status
TerminalError(st) ==
    IF st = 403 THEN "Forbidden"
    ELSE IF st = 404 THEN "NotFound"
    ELSE IF st >= 500 THEN "DiscordServerError"
    ELSE "HTTPException"

\* classify on every terminal status, attempt and ceiling
TerminalClassified ==
    \A st \in TerminalStatuses, a \in 0..4, m \in {NoTime} \cup 0..MaxCeiling :
        classify(Response(st, NoHash, NoTime, NoTime, NoTime, TRUE, TRUE, 0, FALSE),
                 [IdleRequest EXCEPT !.attempt = a], m)
          = [do |-> "raise", exc |-> TerminalError(st), delay |-> 0, is_global |-> FALSE]

\* C15: a response with status 403, 404, another 4xx except 429, or a 5xx
\* other than 500/502/503/524 ends the request on that attempt, with no sleep
\* and no retry, raising Forbidden, NotFound, HTTPException or
\* DiscordServerError respectively; on whichever attempt, under whichever
\* ceiling and with or without rate limit headers.  A call whose last
\* response had such a status is therefore never found asleep or sending.
C15_TerminalStatuses ==
    /\ TerminalClassified
    /\ \A p \in Procs :
          req[p].status \in TerminalAnswers =>
              req[p].phase = "finished" /\ req[p].result = TerminalError(req[p].status)

\* a lone request was retried once and then answered 403: it ended with Forbidden
C15_Witness ==
    \E p \in Procs :
        /\ nresp = 2 /\ Alone(p)
        /\ req[p].phase = "finished" /\ req[p].status = 403 /\ req[p].result = "Forbidden"

\* request p has an attempt in flight on a route whose hash h is recorded,
\* and p looked the route up under that hash or before any hash was known
KnowsRouteAs(p, h) ==
    /\ req[p].phase = "http"
    /\ bucket_hashes[req[p].route] = h
    /\ req[p].bucket_hash \in {NoHash, h}

\* request p is called in this step and is not over at the end of it
Starts(p) == req[p].phase = "idle" /\ req'[p].phase \notin {"idle", "finished"}

C27_OneDrainWhileQueued ==
    \A k \in 1..NumBuckets :
        rl[k].queue # <<>> => rl[k].throttle_task \in {"ready", "sleeping"}

(***************************************************************************)
(* Claims about the decompressor (websockets/decompressor.py)              *)
(***************************************************************************)
\* C34: every new socket decodes its binary frames with a fresh
\* decompression context: the context and the buffer used on an earlier
\* socket are not used on a later one.
C34_FreshContextPerSocket ==
    [][socket' # socket => decompressor' = ActiveDecompressor]_vars

\* C35 as stated: decompress returns None exactly when the bytes accumulated
\* since the last complete frame do not yet end with 00 00 FF FF, and returns
\* the inflated frame as soon as they do, however the bytes are cut into
\* chunks.
C35_MarkerCompletesFrameAsStated ==
    decompressor.buffer = accumulated =>
        \A data \in Chunks :
            LET r == decompress(decompressor, data) IN
              /\ (r.msg = NoMsg) <=> ~EndsWithSuffix(accumulated \o data)
              /\ r.msg # NoMsg =>
                     r.msg = zlib_decompress(decompressor.context, accumulated \o data)

\* C35: decompress returns None exactly when the message just received
\* does not itself end with 00 00 FF FF, and keeps its bytes; a message that
\* ends with the marker returns the inflation of everything buffered since
\* the last returned frame and empties the buffer.
C35_MarkerCompletesFrame ==
    /\ \A data \in Chunks :
          LET r == decompress(decompressor, data) IN
            /\ (r.msg = NoMsg) <=> ~EndsWithSuffix(data)
            /\ r.msg = NoMsg => r.d.buffer = decompressor.buffer \o data
            /\ r.msg # NoMsg =>
                  /\ r.msg = zlib_decompress(decompressor.context, decompressor.buffer \o data)
                  /\ r.d.buffer = <<>>
    /\ inflated # NoMsg => decompressor.buffer = <<>>

\* a frame that came in two messages has been inflated
C35_Witness ==
    /\ inflated # NoMsg
    /\ Len(inflated) >= 2
    /\ decompressor.context = 1
    /\ accumulated = <<>>

\* C36: on a handler that has received no response yet, and so no global
\* 429, no request call is suspended at the global gate
C36_FreshHandlerPassesGate ==
    nresp = 0 => \A p \in Procs : req[p].phase # "gate"

\* C37: when the server closes the socket of the current connection, the
\* closure is classified (reconnect, or the closure error and its code) as
\* it would be had no close code been recorded on an earlier connection.
C37_CloseCodeOfCurrentConnection ==
    (poller.ws = "open" /\ client.pc \in {"hello", "polling"}) =>
        \A c \in ServerCloseCodes :
            LET inp == [kind |-> "closed",
                        frame |-> Frame(-1, FALSE, NoSeq, "None", NoSession), code |-> c]
            IN  poll_event(poller, inp).exc
                    = poll_event([poller EXCEPT !.close_code = NoCode], inp).exc

\* caller p is given a permit by the step, on the immediate path of acquire
\* (its call, or its return from the sleep of a global trip), on the bucket
\* on which q is queued before and after the step
Overtakes(p, q) ==
    /\ procs[q].pc = "queued"
    /\ procs'[q].pc = "queued"
    /\ ncalls' # ncalls \/ procs[p].pc = "gsleep"
    /\ procs'[p] # procs[p] \/ rl' # rl
    /\ procs[p].pc \in {"idle", "done", "gsleep"}
    /\ procs'[p].pc = "done" /\ procs'[p].result = "ok"
    /\ procs'[p].bucket = procs[q].bucket
    /\ rl'[procs[q].bucket].remaining < refresh_window(rl[procs[q].bucket]).remaining

\* C38: an acquire that arrives while earlier callers are queued on the
\* same bucket never obtains a permit before them: no caller is given a
\* permit on the immediate path while another stays queued on the bucket.
C38_NoOvertakingOfQueue ==
    [][\A p, q \in Procs : p # q => ~Overtakes(p, q)]_vars

C40_AtMostCountPerInterval == Sum(sent_frames) <= rate_limiter.max

====
